---- MODULE Spec2Model ----
(***************************************************************************)
(* Model of the semconv migrator (src/Semantic conventions/                *)
(* semconv_migrator.py): the SemconvMigrator coordinator, its schema-change *)
(* cache, the thread pool running _migrate_single_trace, the commit lock,  *)
(* and the MongoDB collection the tasks write to.                          *)
(*                                                                         *)
(* A document's "attributes" mapping is a (possibly nested) dict.  It is   *)
(* modelled as a function from paths (sequences of keys) to leaf values:   *)
(* the scalar at attributes["a"] is the path <<"a">>, the value at         *)
(* attributes["custom"]["trade_type"] is the path <<"custom","trade_type">>.*)
(* A dict key is the first element of a path.                              *)
(*                                                                         *)
(* datetime.utcnow() is read from a clock that advances between            *)
(* migrate_traces calls: the tasks of one call read the same instant, and  *)
(* a later call reads a later one.  Tasks submitted by a call whose        *)
(* future.result() raised keep running on their worker threads.            *)
(***************************************************************************)
EXTENDS Integers, Sequences, FiniteSets, TLC

VARIABLES
    coll,              \* the 'traces' collection: _id -> stored document
    schema_cache,      \* self.schema_cache: cache_key -> change map
    requests,          \* number of requests.get calls issued, per (from, to)
    pc,                \* position of the main thread
    call,              \* arguments of the migrate_traces call in progress
    changes,           \* local 'changes' of migrate_traces
    cursor,            \* _id of the last document the cursor yielded
    enumerated,        \* _ids the cursor of this call has yielded
    futures,           \* local 'futures' of migrate_traces: the submitted tasks
    lock,              \* self.lock is held
    migrated,          \* local 'migrated' of migrate_traces
    history,           \* one entry per migrate_traces call that returned
    writes,            \* number of updates the store applied during this call
    clock,             \* what datetime.utcnow() reads
    plan,              \* the migrate_traces calls the caller still makes
    registry,          \* what the schema registry answers to a GET
    faulty,            \* _ids whose update_one raises (the store rejects the write)
    doomed,            \* _ids another client of the store deletes
    executorShutdown,  \* self.executor.shutdown(wait=True) has returned
    clientClosed,      \* self.client.close() has returned
    ingested           \* one entry per process_trace call: its semconv_version
                       \* argument and the attributes its span carries

vars == <<coll, schema_cache, requests, pc, call, changes, cursor, enumerated, futures, lock,
          migrated, history, writes, clock, plan, registry, faulty, doomed,
          executorShutdown, clientClosed, ingested>>

(***************************************************************************)
(* Bounds of the model.                                                    *)
(***************************************************************************)
NumRecords == 2     \* documents in the collection (Spec)
MaxRuns == 2        \* migrate_traces calls made on one coordinator (Spec)
MaxRules == 2       \* rename rules in a registry answer (SpecRemap)
PoolExtra == 1      \* documents beyond the pool size (SpecPool)
MaxIngest == 2      \* process_trace calls made on one handler (SpecIngest)

(***************************************************************************)
(* MIGRATOR_CONFIG                                                         *)
(***************************************************************************)
supported_versions == {"1.25", "1.32"}
max_workers == 4

\* The attribute keys the rename rules and the documents of the model use.
Keys == {"trade_type", "chain_id", "type"}

\* The leaf value each key carries in the initial documents (one per key, so
\* that a value that ends up under the wrong key is seen).
ValueOf(k) ==
    CASE k = "trade_type" -> "arbitrage"
      [] k = "chain_id"   -> "solana"
      [] OTHER            -> "spot"

VersionPath == <<"semconv_version">>

(***************************************************************************)
(* Python dict operations on an attributes mapping.                        *)
(***************************************************************************)
NoAttributes == [p \in {} |-> ""]

\* old_key in attributes
Has(attributes, key) == \E p \in DOMAIN attributes : p[1] = key

\* attributes[key]: a scalar is the function on {<<>>}, a sub-dict the function
\* on the rest of its paths
Get(attributes, key) ==
    [t \in {Tail(p) : p \in {q \in DOMAIN attributes : q[1] = key}}
        |-> attributes[<<key>> \o t]]

\* the mapping once key is removed
Without(attributes, key) ==
    [p \in {q \in DOMAIN attributes : q[1] # key} |-> attributes[p]]

\* attributes[key] = value
Put(attributes, key, value) ==
    Without(attributes, key) @@
        [p \in {<<key>> \o t : t \in DOMAIN value} |-> value[Tail(p)]]

Scalar(v) == [t \in {<<>>} |-> v]

\* Rename that builds the result from the renamed key alone
RenameDropping(attributes, old_key, new_key) ==
    IF Has(attributes, old_key)
    THEN Put(NoAttributes, new_key, Get(attributes, old_key))
    ELSE attributes

\* attributes[new_key] = attributes.pop(old_key), when old_key in attributes
Rename(attributes, old_key, new_key) ==
    IF Has(attributes, old_key)
    THEN Put(Without(attributes, old_key), new_key, Get(attributes, old_key))
    ELSE attributes

\* for old_key, new_key in changes.items(): ...   (in the dict's order)
RECURSIVE ApplyChanges(_, _)
ApplyChanges(attributes, rules) ==
    IF rules = <<>>
    THEN attributes
    ELSE ApplyChanges(Rename(attributes, Head(rules)[1], Head(rules)[2]), Tail(rules))

\* SetVersion with the assignment of line 73 left out
SetVersionSkipped(attributes, to_version) == attributes

\* remapped['attributes']['semconv_version'] = to_version
SetVersion(attributes, to_version) == Put(attributes, "semconv_version", Scalar(to_version))

\* Remapped with the version tag written before the rules are applied
RemappedVersionFirst(doc, rules, to_version, now) ==
    [attributes |-> ApplyChanges(SetVersion(doc.attributes, to_version), rules),
     sysTime    |-> now]

\* lines 67-74 of _migrate_single_trace: the document the task commits
Remapped(doc, rules, to_version, now) ==
    [attributes |-> SetVersion(ApplyChanges(doc.attributes, rules), to_version),
     sysTime    |-> now]

(***************************************************************************)
(* The collection.                                                         *)
(***************************************************************************)
Deleted == [exists |-> FALSE, attributes |-> NoAttributes, sysTime |-> 0]

\* Matches of a query with no version filter
MatchesAny(stored, version) == stored.exists

\* collection.find({"attributes.semconv_version": version})
Matches(stored, version) ==
    /\ stored.exists
    /\ VersionPath \in DOMAIN stored.attributes
    /\ stored.attributes[VersionPath] = version

\* UpdateOne as an upsert: a missing document is created
UpdateOneUpsert(stored, remapped) ==
    [exists |-> TRUE, attributes |-> remapped.attributes, sysTime |-> remapped.sysTime]

\* the document update_one({"_id": id}, {"$set": remapped}) leaves stored
UpdateOne(stored, remapped) ==
    IF stored.exists
    THEN [exists |-> TRUE, attributes |-> remapped.attributes, sysTime |-> remapped.sysTime]
    ELSE stored

\* result.modified_count
ModifiedCount(stored, remapped) ==
    IF stored.exists /\ UpdateOne(stored, remapped) # stored THEN 1 ELSE 0

\* ReturnValue reporting a commit that matched no document as a success
ReturnValueAlways(modified_count) == modified_count >= 0

\* return result.modified_count > 0
ReturnValue(modified_count) == modified_count > 0

(***************************************************************************)
(* _fetch_schema_changes                                                   *)
(***************************************************************************)
CacheKey(from_version, to_version) == from_version \o "_" \o to_version

\* the built-in mapping of the except branch
FallbackChanges ==
    << <<"attributes.custom.trade_type", "attributes.trade.type">>,
       <<"attributes.custom.chain_id", "attributes.chain.id">> >>

\* what the try/except leaves in 'changes' for each outcome of requests.get
FetchedChanges(reg) ==
    CASE reg.status = "ok"     -> reg.body
      [] reg.status = "non200" -> <<>>
      [] OTHER                 -> FallbackChanges

\* CacheHit with the lookup always missing
CacheHitNever(cache, key) == FALSE

\* if cache_key in self.schema_cache
CacheHit(cache, key) == key \in DOMAIN cache

\* CacheStore that replaces the cache by the new entry alone
CacheStoreOnly(cache, key, rules) == key :> rules

\* self.schema_cache[cache_key] = changes
CacheStore(cache, key, rules) == (key :> rules) @@ cache

(***************************************************************************)
(* The thread pool and the lock.                                           *)
(***************************************************************************)
\* tasks a worker thread of the executor is executing
Running == {t \in DOMAIN futures : futures[t].state \in {"running", "locked"}}

\* WorkerAvailable of a pool that starts a thread for every task
WorkerAlwaysAvailable(busy) == TRUE

\* ThreadPoolExecutor(max_workers=...): a queued task starts when fewer than
\* max_workers threads are busy
WorkerAvailable(busy) == busy < max_workers

\* LockFree of a lock that does not exclude
LockFreeAlways(held) == TRUE

\* with self.lock: the lock can be taken
LockFree(held) == ~held

\* Counted with every result that did not raise counted
CountedAlways(result) == TRUE

\* if future.result(): migrated += 1
Counted(result) == result = "true"

(***************************************************************************)
(* Initial states.  The collection, the caller's calls, the registry's     *)
(* answer, the documents the store rejects and the documents another       *)
(* client deletes are the inputs of a behaviour.                           *)
(***************************************************************************)
Upgrade == <<"1.25", "1.32">>
SameVersion == <<"1.25", "1.25">>
CallPairs == {Upgrade, SameVersion}

FlatAttributes(keys) == [p \in {<<k>> : k \in keys} |-> ValueOf(p[1])]

Document(keys, version) ==
    [exists     |-> TRUE,
     attributes |-> Put(FlatAttributes(keys), "semconv_version", Scalar(version)),
     sysTime    |-> 0]

\* attributes whose values sit in the sub-dict 'custom', at the paths the
\* built-in fallback mapping names: attributes.custom.trade_type and
\* attributes.custom.chain_id
NestedAttributes ==
    (<<"custom", "trade_type">> :> "arbitrage") @@ (<<"custom", "chain_id">> :> "solana")

NestedDocument(version) ==
    [exists     |-> TRUE,
     attributes |-> Put(NestedAttributes, "semconv_version", Scalar(version)),
     sysTime    |-> 0]

\* keys of the i-th document of Spec and SpecPool
KeysOf(i) ==
    CASE i % 3 = 1 -> {"trade_type"}
      [] i % 3 = 2 -> {"chain_id"}
      [] OTHER     -> {"trade_type", "chain_id"}

RegistryOk(body) == [status |-> "ok", body |-> body]
RegistryNon200 == [status |-> "non200", body |-> <<>>]
RegistryDown == [status |-> "down", body |-> <<>>]

\* the registry answer of Spec: one rename that touches some documents only
TradeTypeRule == << <<"trade_type", "type">> >>

\* sequences of at most n calls, each with one of the given version pairs
RECURSIVE CallsOver(_, _)
CallsOver(pairs, n) ==
    IF n = 0 THEN {<<>>}
    ELSE LET shorter == CallsOver(pairs, n - 1)
         IN shorter \cup {Append(s, c) : s \in {x \in shorter : Len(x) = n - 1}, c \in pairs}

CallsUpTo(n) == CallsOver(CallPairs, n)

\* version strings that carry a pre-release tag, and calls between them
TaggedPairs == {<<"1.25_rc", "1.32">>, <<"1.25", "rc_1.32">>}

\* rename rules over Keys (a rule renames a key to another key), and the
\* registry answers with at most n of them (a JSON object: no old key twice)
Rules == {r \in Keys \X Keys : r[1] # r[2]}

OldKeys(body) == {body[j][1] : j \in DOMAIN body}

RECURSIVE BodiesUpTo(_)
BodiesUpTo(n) ==
    IF n = 0 THEN {<<>>}
    ELSE LET shorter == BodiesUpTo(n - 1)
             longest == {b \in shorter : Len(b) = n - 1}
             grown(b) == {Append(b, r) : r \in {q \in Rules : q[1] \notin OldKeys(b)}}
         IN shorter \cup UNION {grown(b) : b \in longest}

\* registry answers with a rule that names the version tag itself
VersionBodies ==
    { << <<"semconv_version", "type">> >>,
      << <<"trade_type", "semconv_version">> >>,
      << <<"trade_type", "semconv_version">>, <<"semconv_version", "chain_id">> >> }

InitWith(stores, plans, registries, faultySets, doomedSets) ==
    /\ coll \in stores
    /\ plan \in plans
    /\ registry \in registries
    /\ faulty \in faultySets
    /\ doomed \in doomedSets
    /\ schema_cache = [k \in {} |-> <<>>]
    /\ requests = [c \in CallPairs \cup TaggedPairs |-> 0]
    /\ pc = "idle"
    /\ call = [from |-> "", to |-> ""]
    /\ changes = <<>>
    /\ cursor = 0
    /\ enumerated = {}
    /\ futures = <<>>
    /\ lock = FALSE
    /\ migrated = 0
    /\ history = <<>>
    /\ writes = 0
    /\ clock = 0
    /\ executorShutdown = FALSE
    /\ clientClosed = FALSE
    /\ ingested = <<>>

AtMostOne(S) == {{}} \cup {{x} : x \in S}

Stores(n) ==
    {[i \in 1..n |-> Document(KeysOf(i), v[i])] : v \in [1..n -> supported_versions]}

\* Spec: a small collection with documents of both versions, any calls
Init ==
    InitWith(Stores(NumRecords),
             CallsUpTo(MaxRuns) \ {<<>>},
             {RegistryOk(TradeTypeRule), RegistryNon200, RegistryDown},
             AtMostOne(1..NumRecords),
             AtMostOne(1..NumRecords))

\* SpecCache: calls whose version strings carry a tag, on documents of the two
\* source versions
InitCache ==
    InitWith({[i \in 1..NumRecords |-> Document(KeysOf(i), v[i])] :
                  v \in [1..NumRecords -> {"1.25_rc", "1.25"}]},
             CallsOver(TaggedPairs, MaxRuns) \ {<<>>},
             {RegistryOk(TradeTypeRule), RegistryDown},
             AtMostOne(1..NumRecords),
             AtMostOne(1..NumRecords))

\* SpecPool: more matching documents than worker threads, one upgrade call
PoolRecords == max_workers + PoolExtra

InitPool ==
    InitWith({[i \in 1..PoolRecords |-> Document(KeysOf(i), "1.25")]},
             {<<Upgrade>>},
             {RegistryDown},
             {{}, {1}},
             {{}, {PoolRecords}})

\* SpecRemap: one document with any keys or with nested attributes, any
\* registry answer, one upgrade call
InitRemap ==
    InitWith({[i \in 1..1 |-> Document(keys, "1.25")] : keys \in SUBSET Keys}
                 \cup {[i \in 1..1 |-> NestedDocument("1.25")]},
             {<<Upgrade>>},
             {RegistryOk(body) : body \in BodiesUpTo(MaxRules) \cup VersionBodies}
                 \cup {RegistryNon200, RegistryDown},
             {{}, {1}},
             {{}, {1}})

(***************************************************************************)
(* migrate_traces, on the main thread.                                     *)
(***************************************************************************)
\* changes = self._fetch_schema_changes(from_version, to_version);
\* cursor = self.collection.find(...); futures = []
MigrateTraces ==
    /\ pc = "idle"
    /\ plan # <<>>
    /\ LET from_version == Head(plan)[1]
           to_version == Head(plan)[2]
           cache_key == CacheKey(from_version, to_version)
           hit == CacheHit(schema_cache, cache_key)
           fetched == IF hit THEN schema_cache[cache_key] ELSE FetchedChanges(registry)
       IN /\ changes' = fetched
          /\ schema_cache' = IF hit THEN schema_cache
                             ELSE CacheStore(schema_cache, cache_key, fetched)
          /\ requests' = IF hit THEN requests
                         ELSE [requests EXCEPT ![Head(plan)] = @ + 1]
          /\ call' = [from |-> from_version, to |-> to_version]
    /\ plan' = Tail(plan)
    /\ cursor' = 0
    /\ enumerated' = {}
    /\ futures' = <<>>
    /\ migrated' = 0
    /\ writes' = 0
    /\ clock' = clock + 1
    /\ pc' = "submit"
    /\ UNCHANGED <<ingested, coll, lock, history, registry, faulty, doomed,
                   executorShutdown, clientClosed>>

\* documents the cursor has still to yield
Remaining == {i \in DOMAIN coll : i > cursor /\ Matches(coll[i], call.from)}

\* for doc in cursor: futures.append(self.executor.submit(...))
SubmitNext ==
    /\ pc = "submit"
    /\ Remaining # {}
    /\ LET i == CHOOSE m \in Remaining : \A o \in Remaining : m <= o
           doc == [attributes |-> coll[i].attributes, sysTime |-> coll[i].sysTime]
       IN /\ futures' = Append(futures, [id |-> i, state |-> "queued", doc |-> doc,
                                         remapped |-> doc, result |-> "pending",
                                         consumed |-> FALSE])
          /\ cursor' = i
          /\ enumerated' = enumerated \cup {i}
    /\ UNCHANGED <<ingested, coll, schema_cache, requests, pc, call, changes, lock, migrated,
                   history, writes, clock, plan, registry, faulty, doomed,
                   executorShutdown, clientClosed>>

\* the cursor is exhausted: the for loop ends
CursorExhausted ==
    /\ pc = "submit"
    /\ Remaining = {}
    /\ pc' = "collect"
    /\ UNCHANGED <<ingested, enumerated, coll, schema_cache, requests, call, changes, cursor, futures, lock,
                   migrated, history, writes, clock, plan, registry, faulty, doomed,
                   executorShutdown, clientClosed>>

\* for future in as_completed(futures): if future.result(): migrated += 1
CollectResult(t) ==
    /\ pc = "collect"
    /\ futures[t].state = "done"
    /\ ~futures[t].consumed
    /\ futures[t].result # "raised"
    /\ futures' = [futures EXCEPT ![t].consumed = TRUE]
    /\ migrated' = IF Counted(futures[t].result) THEN migrated + 1 ELSE migrated
    /\ UNCHANGED <<ingested, enumerated, coll, schema_cache, requests, pc, call, changes, cursor, lock,
                   history, writes, clock, plan, registry, faulty, doomed,
                   executorShutdown, clientClosed>>

\* future.result() re-raises the task's exception: nothing in migrate_traces or
\* in __main__ catches it
ResultRaises(t) ==
    /\ pc = "collect"
    /\ futures[t].state = "done"
    /\ ~futures[t].consumed
    /\ futures[t].result = "raised"
    /\ pc' = "crashed"
    /\ UNCHANGED <<ingested, enumerated, coll, schema_cache, requests, call, changes, cursor, futures, lock,
                   migrated, history, writes, clock, plan, registry, faulty, doomed,
                   executorShutdown, clientClosed>>

\* return migrated
ReturnMigrated ==
    /\ pc = "collect"
    /\ \A t \in DOMAIN futures : futures[t].consumed
    /\ history' = Append(history, [from |-> call.from, to |-> call.to,
                                   dispatched |-> Len(futures), count |-> migrated])
    /\ pc' = "idle"
    /\ UNCHANGED <<ingested, enumerated, coll, schema_cache, requests, call, changes, cursor, futures, lock,
                   migrated, writes, clock, plan, registry, faulty, doomed,
                   executorShutdown, clientClosed>>

\* shutdown: self.executor.shutdown(wait=True); self.client.close()
Shutdown ==
    /\ pc = "idle"
    /\ plan = <<>>
    /\ \A t \in DOMAIN futures : futures[t].state = "done"
    /\ executorShutdown' = TRUE
    /\ clientClosed' = TRUE
    /\ pc' = "done"
    /\ UNCHANGED <<ingested, enumerated, coll, schema_cache, requests, call, changes, cursor, futures, lock,
                   migrated, history, writes, clock, plan, registry, faulty, doomed>>

(***************************************************************************)
(* _migrate_single_trace, on a worker thread of the executor.              *)
(***************************************************************************)
\* a worker thread takes the task off the queue and runs lines 67-74
StartTask(t) ==
    /\ futures[t].state = "queued"
    /\ WorkerAvailable(Cardinality(Running))
    /\ futures' = [futures EXCEPT
                      ![t].state = "running",
                      ![t].remapped = Remapped(futures[t].doc, changes, call.to, clock)]
    /\ UNCHANGED <<ingested, enumerated, coll, schema_cache, requests, pc, call, changes, cursor, lock,
                   migrated, history, writes, clock, plan, registry, faulty, doomed,
                   executorShutdown, clientClosed>>

\* with self.lock:
AcquireLock(t) ==
    /\ futures[t].state = "running"
    /\ LockFree(lock)
    /\ lock' = TRUE
    /\ futures' = [futures EXCEPT ![t].state = "locked"]
    /\ UNCHANGED <<ingested, enumerated, coll, schema_cache, requests, pc, call, changes, cursor, migrated,
                   history, writes, clock, plan, registry, faulty, doomed,
                   executorShutdown, clientClosed>>

\* result = self.collection.update_one(...); return result.modified_count > 0
\* (leaving the with block releases the lock)
Commit(t) ==
    /\ futures[t].state = "locked"
    /\ futures[t].id \notin faulty
    /\ LET id == futures[t].id
           modified_count == ModifiedCount(coll[id], futures[t].remapped)
       IN /\ coll' = [coll EXCEPT ![id] = UpdateOne(coll[id], futures[t].remapped)]
          /\ writes' = IF UpdateOne(coll[id], futures[t].remapped) # coll[id]
                       THEN writes + 1 ELSE writes
          /\ futures' = [futures EXCEPT
                            ![t].state = "done",
                            ![t].result = IF ReturnValue(modified_count)
                                          THEN "true" ELSE "false"]
    /\ lock' = FALSE
    /\ UNCHANGED <<ingested, enumerated, schema_cache, requests, pc, call, changes, cursor, migrated, history,
                   clock, plan, registry, faulty, doomed, executorShutdown, clientClosed>>

\* LockAfterRaise of a lock released by hand after update_one, not by a with
\* block: an exception leaves it held
LockAfterRaiseHeld == TRUE

\* with self.lock: leaving the block by an exception releases the lock
LockAfterRaise == FALSE

\* update_one raises: the with block releases the lock and the exception is
\* stored in the task's future
CommitRaises(t) ==
    /\ futures[t].state = "locked"
    /\ futures[t].id \in faulty
    /\ futures' = [futures EXCEPT ![t].state = "done", ![t].result = "raised"]
    /\ lock' = LockAfterRaise
    /\ UNCHANGED <<ingested, enumerated, coll, schema_cache, requests, pc, call, changes, cursor, migrated,
                   history, writes, clock, plan, registry, faulty, doomed,
                   executorShutdown, clientClosed>>

(***************************************************************************)
(* Another client of the store deletes a document.                         *)
(***************************************************************************)
Delete(i) ==
    /\ i \in doomed
    /\ coll[i].exists
    /\ coll' = [coll EXCEPT ![i] = Deleted]
    /\ UNCHANGED <<ingested, enumerated, schema_cache, requests, pc, call, changes, cursor, futures, lock,
                   migrated, history, writes, clock, plan, registry, faulty, doomed,
                   executorShutdown, clientClosed>>

(***************************************************************************)
(* TraceAttributesHandler (src/Semantic conventions/trace_attributes.py),  *)
(* the ingestion path that writes the documents of the collection.         *)
(***************************************************************************)
\* TRACE_CONFIG['default_version']
default_version == "1.32"

\* the semconv_version arguments process_trace is called with
InputVersions == supported_versions \cup {"1.20", ""}

\* the trace_data['attributes'] process_trace is called with: the keys of the
\* entry point, fewer of them, and a mapping that already carries a version
TraceInputs ==
    {FlatAttributes(keys) : keys \in SUBSET {"trade_type", "chain_id"}}
        \cup {Put(FlatAttributes({"trade_type"}), "semconv_version", Scalar("0.9"))}

\* EffectiveVersion with the input version written as given
EffectiveVersionAsGiven(semconv_version) == semconv_version

\* if semconv_version not in TRACE_CONFIG['supported_versions']:
\*     semconv_version = TRACE_CONFIG['default_version']
EffectiveVersion(semconv_version) ==
    IF semconv_version \notin supported_versions
    THEN default_version
    ELSE semconv_version

\* process_trace: the version fallback, the three assignments to trace_data,
\* insert_one, and the attributes set on the span
ProcessTrace(attributes, semconv_version) ==
    /\ pc = "idle"
    /\ ~clientClosed
    /\ Len(coll) < MaxIngest
    /\ LET version == EffectiveVersion(semconv_version)
           inserted_id == Len(coll) + 1
           trace_data == [exists     |-> TRUE,
                          attributes |-> Put(attributes, "semconv_version", Scalar(version)),
                          sysTime    |-> clock]
       IN /\ coll' = Append(coll, trace_data)
          /\ ingested' = Append(ingested,
                 [argument         |-> semconv_version,
                  version_fallback |-> semconv_version \notin supported_versions,
                  trace_id         |-> inserted_id,
                  semconv_version  |-> version])
    /\ clock' = clock + 1
    /\ UNCHANGED <<schema_cache, requests, pc, call, changes, cursor, enumerated, futures,
                   lock, migrated, history, writes, plan, registry, faulty, doomed,
                   executorShutdown, clientClosed>>

\* TraceAttributesHandler.shutdown: self.client.close()
HandlerShutdown ==
    /\ pc = "idle"
    /\ ~clientClosed
    /\ clientClosed' = TRUE
    /\ pc' = "done"
    /\ UNCHANGED <<coll, schema_cache, requests, call, changes, cursor, enumerated,
                   futures, lock, migrated, history, writes, clock, plan, registry,
                   faulty, doomed, executorShutdown, ingested>>

\* SpecIngest: a handler on an empty collection, up to MaxIngest calls
InitIngest == InitWith({<<>>}, {<<>>}, {RegistryDown}, {{}}, {{}})

NextIngest ==
    \/ \E attributes \in TraceInputs, semconv_version \in InputVersions :
           ProcessTrace(attributes, semconv_version)
    \/ HandlerShutdown

Next ==
    \/ MigrateTraces
    \/ SubmitNext
    \/ CursorExhausted
    \/ \E t \in DOMAIN futures : StartTask(t)
    \/ \E t \in DOMAIN futures : AcquireLock(t)
    \/ \E t \in DOMAIN futures : Commit(t)
    \/ \E t \in DOMAIN futures : CommitRaises(t)
    \/ \E t \in DOMAIN futures : CollectResult(t)
    \/ \E t \in DOMAIN futures : ResultRaises(t)
    \/ ReturnMigrated
    \/ Shutdown
    \/ \E i \in DOMAIN coll : Delete(i)

Spec == Init /\ [][Next]_vars

SpecPool == InitPool /\ [][Next]_vars

SpecRemap == InitRemap /\ [][Next]_vars

\* a step of a worker thread of the executor
WorkerStep ==
    \E t \in DOMAIN futures :
        StartTask(t) \/ AcquireLock(t) \/ Commit(t) \/ CommitRaises(t)

\* SpecPool with worker threads that are scheduled fairly: a worker that can
\* take a step eventually takes one
SpecPoolFair == InitPool /\ [][Next]_vars /\ WF_vars(WorkerStep)

SpecCache == InitCache /\ [][Next]_vars

SpecIngest == InitIngest /\ [][NextIngest]_vars

(***************************************************************************)
(* Properties.                                                             *)
(***************************************************************************)
Last(seq) == seq[Len(seq)]

\* tasks whose commit returned True
Succeeded == {t \in DOMAIN futures : futures[t].result = "true"}

\* C1: when the task of one record raises, migrate_traces still returns
\* normally (no exception escapes the call) and the count it returns is the
\* number of successful commits among the other records.
C1_PartialFailureIsolation ==
    (\E t \in DOMAIN futures : futures[t].result = "raised") =>
        /\ pc # "crashed"
        /\ (pc = "idle" /\ history # <<>>) =>
               Last(history).count = Cardinality(Succeeded)

\* C2: for every rule (old_key, new_key) of the change map whose old_key is in
\* the document's attributes before the migration, the committed attributes
\* have no old_key and hold under new_key the value old_key had.
C2_RenameCorrect ==
    \A t \in DOMAIN futures :
        (futures[t].result = "true" /\ coll[futures[t].id].exists) =>
            \A j \in DOMAIN changes :
                Has(futures[t].doc.attributes, changes[j][1]) =>
                    /\ ~Has(coll[futures[t].id].attributes, changes[j][1])
                    /\ Get(coll[futures[t].id].attributes, changes[j][2])
                           = Get(futures[t].doc.attributes, changes[j][1])

\* C3: after a request that ended in a non-200 answer or a transport failure,
\* the change map returned and cached is the built-in fallback mapping.
C3_FallbackOnFailure ==
    registry.status # "ok" =>
        /\ \A k \in DOMAIN schema_cache : schema_cache[k] = FallbackChanges
        /\ pc \in {"submit", "collect"} => changes = FallbackChanges

\* tasks inside the with self.lock block
Committing == {t \in DOMAIN futures : futures[t].state = "locked"}

\* C4: at most one worker is inside the commit step at any time, and it is
\* the one that holds the lock.
C4_CommitSerialized ==
    /\ Cardinality(Committing) <= 1
    /\ Committing # {} => lock

\* a worker is committing while another one has finished its remap and waits
C4_Witness ==
    \E t \in DOMAIN futures, u \in DOMAIN futures :
        /\ futures[t].state = "locked"
        /\ futures[u].state = "running"

\* C5 as stated: a migrate_traces call that follows a completed call with the
\* same versions enumerates no document and returns 0.
C5_Idempotent ==
    \A k \in 2..Len(history) :
        (history[k].from = history[k - 1].from /\ history[k].to = history[k - 1].to) =>
            /\ history[k].dispatched = 0
            /\ history[k].count = 0

\* C5 amended: the same, for calls whose from_version and to_version differ.
C5_IdempotentUpgrade ==
    \A k \in 2..Len(history) :
        (/\ history[k].from = history[k - 1].from
         /\ history[k].to = history[k - 1].to
         /\ history[k].from # history[k].to) =>
            /\ history[k].dispatched = 0
            /\ history[k].count = 0

\* an upgrade that migrated documents was run again and has returned
C5_Witness ==
    /\ Len(history) >= 2
    /\ history[1].from # history[1].to
    /\ history[2].from = history[1].from
    /\ history[2].to = history[1].to
    /\ history[1].count > 0

\* C6: every document the cursor yields is dispatched as exactly one task, and
\* the value migrate_traces returns is the number of documents whose update
\* altered the stored state.
C6_ResultCount ==
    /\ \A i \in enumerated : Cardinality({t \in DOMAIN futures : futures[t].id = i}) = 1
    /\ Len(futures) = Cardinality(enumerated)
    /\ (pc = "idle" /\ history # <<>>) =>
           /\ Last(history).dispatched = Cardinality(enumerated)
           /\ Last(history).count = writes

\* a call has returned a count that includes a document none of whose keys the
\* change map renames, and excludes a document whose update altered nothing
C6_Witness ==
    /\ pc = "idle"
    /\ history # <<>>
    /\ Last(history).count > 0
    /\ changes # <<>>
    /\ \E t \in DOMAIN futures :
           /\ futures[t].result = "true"
           /\ \A j \in DOMAIN changes : ~Has(futures[t].doc.attributes, changes[j][1])
    /\ \E t \in DOMAIN futures : futures[t].result = "false"

\* C7: once the run started from the entry point has ended, with a result or
\* with an exception, the pool is shut down and the connection is closed.
C7_CleanupReached ==
    pc \in {"done", "crashed"} => (executorShutdown /\ clientClosed)

\* C8: no version pair is ever requested twice from the registry, and a call
\* for a pair that is in the cache uses the cached map and issues no request.
C8_OneRequestPerPair ==
    [][/\ \A c \in CallPairs : requests'[c] <= 1
       /\ (/\ pc = "idle"
           /\ pc' = "submit"
           /\ CacheKey(Head(plan)[1], Head(plan)[2]) \in DOMAIN schema_cache) =>
              /\ requests' = requests
              /\ schema_cache' = schema_cache
              /\ changes' = schema_cache[CacheKey(Head(plan)[1], Head(plan)[2])]]_vars

\* a pair whose only request failed is asked for again: the stored fallback is
\* used and the request count stays 1
C8_Witness ==
    /\ history # <<>>
    /\ pc = "submit"
    /\ registry.status = "down"
    /\ history[1].from = call.from
    /\ history[1].to = call.to
    /\ requests[<<call.from, call.to>>] = 1
    /\ changes = FallbackChanges

\* C9: the number of tasks executing at the same time never exceeds
\* max_workers.
C9_BoundedConcurrency == Cardinality(Running) <= max_workers

\* max_workers tasks are executing and a further task waits in the queue
C9_Witness ==
    /\ Cardinality(Running) = max_workers
    /\ \E t \in DOMAIN futures : futures[t].state = "queued"

\* C10: the number of writes the store applied equals the number of commits
\* reported successful, and every document whose commit succeeded holds what
\* its own task remapped.
C10_NoLostUpdate ==
    /\ writes = Cardinality(Succeeded)
    /\ \A t \in Succeeded :
           coll[futures[t].id].exists =>
               /\ coll[futures[t].id].attributes = futures[t].remapped.attributes
               /\ coll[futures[t].id].sysTime = futures[t].remapped.sysTime

\* all tasks of a run with more documents than workers are done: some commits
\* succeeded and one matched no document
C10_Witness ==
    /\ Len(futures) > max_workers
    /\ \A t \in DOMAIN futures : futures[t].state = "done"
    /\ Cardinality(Succeeded) >= max_workers
    /\ \E t \in DOMAIN futures : futures[t].result = "false"

\* C11: every document process_trace inserted carries the input version when
\* it is a supported one and the default version otherwise, the span is
\* flagged version_fallback exactly in the second case, and so the version of
\* every ingested document is present and supported.
C11_IngestVersion ==
    \A k \in DOMAIN ingested :
        LET stored == coll[ingested[k].trace_id]
            argument == ingested[k].argument
        IN /\ stored.exists
           /\ VersionPath \in DOMAIN stored.attributes
           /\ stored.attributes[VersionPath] \in supported_versions
           /\ argument \in supported_versions =>
                  (stored.attributes[VersionPath] = argument /\ ~ingested[k].version_fallback)
           /\ argument \notin supported_versions =>
                  (/\ stored.attributes[VersionPath] = default_version
                   /\ ingested[k].version_fallback)

\* a trace was ingested with an unsupported version, and another with a
\* supported version that is not the default
C11_Witness ==
    /\ \E k \in DOMAIN ingested : ingested[k].argument = "1.20"
    /\ \E k \in DOMAIN ingested : ingested[k].argument = "1.25"

\* C12: when the registry is unreachable the run still completes, and a
\* document that stores values at attributes.custom.trade_type and
\* attributes.custom.chain_id holds them, once committed, at
\* attributes.trade.type and attributes.chain.id and no longer at the old paths.
C12_FallbackEndToEnd ==
    registry.status = "down" =>
        /\ faulty = {} => pc # "crashed"
        /\ \A t \in DOMAIN futures :
               (/\ futures[t].result = "true"
                /\ coll[futures[t].id].exists
                /\ <<"custom", "trade_type">> \in DOMAIN futures[t].doc.attributes
                /\ <<"custom", "chain_id">> \in DOMAIN futures[t].doc.attributes) =>
                   LET before == futures[t].doc.attributes
                       after == coll[futures[t].id].attributes
                   IN /\ <<"trade", "type">> \in DOMAIN after
                      /\ after[<<"trade", "type">>] = before[<<"custom", "trade_type">>]
                      /\ <<"chain", "id">> \in DOMAIN after
                      /\ after[<<"chain", "id">>] = before[<<"custom", "chain_id">>]
                      /\ <<"custom", "trade_type">> \notin DOMAIN after
                      /\ <<"custom", "chain_id">> \notin DOMAIN after

\* C13: a commit against a document that was deleted after it was enumerated
\* changes nothing in the store (the document is not re-created) and returns
\* False, and a task that returned False adds nothing to the count.
C13_DeletedNotRecreated ==
    [][\A t \in DOMAIN futures :
           t \in DOMAIN futures' =>
               /\ (/\ futures[t].state = "locked"
                   /\ futures'[t].state = "done"
                   /\ futures'[t].result # "raised"
                   /\ ~coll[futures[t].id].exists) =>
                      (coll' = coll /\ futures'[t].result = "false")
               /\ (/\ ~futures[t].consumed
                   /\ futures'[t].consumed
                   /\ futures[t].result = "false") =>
                      migrated' = migrated]_vars

\* a call has returned whose tasks include one that committed against a
\* deleted document: it is not in the store and not in the count
C13_Witness ==
    /\ pc = "idle"
    /\ history # <<>>
    /\ \E t \in DOMAIN futures :
           /\ futures[t].result = "false"
           /\ ~coll[futures[t].id].exists
    /\ Last(history).count = Last(history).dispatched - 1
    /\ Last(history).count > 0

\* keys of an attributes mapping, and the new keys of a change map
KeysIn(attributes) == {p[1] : p \in DOMAIN attributes}

NewKeys(body) == {body[j][2] : j \in DOMAIN body}

\* committed tasks whose document is still in the store
Committed == {t \in Succeeded : coll[futures[t].id].exists}

\* C14 as stated: every key of the document that is not an old_key of the
\* change map (semconv_version aside) is present after the migration with the
\* value it had; a document with no old_key is changed in its version tag and
\* timestamp only.
C14_RenameFrame ==
    \A t \in Committed :
        LET before == futures[t].doc.attributes
            after == coll[futures[t].id].attributes
        IN /\ \A key \in KeysIn(before) \ (OldKeys(changes) \cup {"semconv_version"}) :
                  Get(after, key) = Get(before, key)
           /\ KeysIn(before) \cap OldKeys(changes) = {} =>
                  Without(after, "semconv_version") = Without(before, "semconv_version")

\* C14 amended: the same for every key that is neither an old_key nor a
\* new_key of the change map.
C14_RenameFrameUnmentioned ==
    \A t \in Committed :
        LET before == futures[t].doc.attributes
            after == coll[futures[t].id].attributes
        IN /\ \A key \in KeysIn(before) \
                     (OldKeys(changes) \cup NewKeys(changes) \cup {"semconv_version"}) :
                  Get(after, key) = Get(before, key)
           /\ KeysIn(before) \cap OldKeys(changes) = {} =>
                  Without(after, "semconv_version") = Without(before, "semconv_version")

\* a document was committed after a rule renamed one of its keys, and it has
\* another key that the change map does not mention
C14_Witness ==
    \E t \in Committed :
        /\ KeysIn(futures[t].doc.attributes) \cap OldKeys(changes) # {}
        /\ KeysIn(futures[t].doc.attributes) \
               (OldKeys(changes) \cup NewKeys(changes) \cup {"semconv_version"}) # {}

\* C15: the stored attributes.semconv_version of every document whose commit
\* succeeded is to_version, whatever the change map holds.
C15_VersionTag ==
    \A t \in Committed :
        Get(coll[futures[t].id].attributes, "semconv_version") = Scalar(call.to)

\* a document was committed under a change map with a rule that renames the
\* version tag
C15_Witness ==
    /\ Committed # {}
    /\ "semconv_version" \in OldKeys(changes)

\* a document was committed under the empty change map
C15_WitnessEmptyMap ==
    /\ Committed # {}
    /\ changes = <<>>

\* C16: once a task has raised, every other submitted task is still executed
\* to its end, and a commit it reports successful is in the store.
C16_SiblingsNotCancelled ==
    \A t \in 1..PoolRecords :
        (/\ t \in DOMAIN futures
         /\ \E u \in DOMAIN futures : u # t /\ futures[u].result = "raised")
            ~> (/\ t \in DOMAIN futures
                /\ futures[t].state = "done"
                /\ futures[t].result = "true" =>
                       \/ ~coll[futures[t].id].exists
                       \/ coll[futures[t].id].attributes = futures[t].remapped.attributes)

\* the exception of one task has ended migrate_traces, and every other task
\* has run and committed
C16_Witness ==
    /\ pc = "crashed"
    /\ Len(futures) = PoolRecords
    /\ \A t \in DOMAIN futures : futures[t].state = "done"
    /\ Cardinality(Succeeded) = PoolRecords - 1

\* C17: two different ordered pairs of versions have distinct cache entries:
\* the change map a call works with was fetched for the call's own pair, never
\* for another one.
C17_CacheKeyDistinct ==
    pc \in {"submit", "collect"} =>
        /\ requests[<<call.from, call.to>>] >= 1
        /\ \A p \in DOMAIN requests :
               (requests[p] >= 1 /\ CacheKey(p[1], p[2]) = CacheKey(call.from, call.to)) =>
                   p = <<call.from, call.to>>

\* C18: a migrate_traces call writes only documents that were tagged
\* from_version when the cursor yielded them, leaves every other document as it
\* is, and inserts no document.
C18_RunFrame ==
    [][/\ DOMAIN coll' = DOMAIN coll
       /\ \A i \in DOMAIN coll :
              (coll'[i] # coll[i] /\ coll'[i].exists) =>
                  /\ coll[i].exists
                  /\ i \in enumerated
                  /\ \E t \in DOMAIN futures :
                         /\ futures[t].id = i
                         /\ Get(futures[t].doc.attributes, "semconv_version")
                                = Scalar(call.from)]_vars

\* a call has returned that committed a document and left a document of
\* another version as it was
C18_Witness ==
    /\ pc = "idle"
    /\ history # <<>>
    /\ Committed # {}
    /\ \E i \in DOMAIN coll \ enumerated :
           /\ coll[i].exists
           /\ coll[i].sysTime = 0
           /\ Get(coll[i].attributes, "semconv_version") # Scalar(call.from)

\* C19: an entry of the cache is never modified or removed once stored, and
\* the change map the tasks of a call read is the entry cached for the call.
C19_ChangeMapReadOnly ==
    [][/\ \A k \in DOMAIN schema_cache :
              k \in DOMAIN schema_cache' /\ schema_cache'[k] = schema_cache[k]
       /\ pc' \in {"submit", "collect", "crashed"} =>
              /\ CacheKey(call'.from, call'.to) \in DOMAIN schema_cache'
              /\ changes' = schema_cache'[CacheKey(call'.from, call'.to)]]_vars

\* two calls with different version pairs have returned, the second after its
\* tasks committed: both entries are in the cache
C19_Witness ==
    /\ pc = "idle"
    /\ Len(history) = 2
    /\ Cardinality(DOMAIN schema_cache) = 2
    /\ Committed # {}
    /\ changes # <<>>

====
